---- MODULE Spec2Model ----
(***************************************************************************)
(* Route geometry normalisation of hikingRoutesGPT (app/app/utils.py and   *)
(* the handlers of app/app/main.py that call it).                          *)
(*                                                                         *)
(* JSON values are modelled by records of a fixed shape:                   *)
(*   number      [n |-> numerator, d |-> denominator]  (the float n/d)     *)
(*   string      a sequence of character codes (ord)                       *)
(*   coordinates [tag |-> "points" | "lines" | "absent", points, lines]    *)
(*   geometry    [kind |-> "dict" | "str" | "other", gtype, coordinates,   *)
(*                str]                                                     *)
(*   response    [isDict, type, hasFeatures, features, hasRoutes, routes,  *)
(*                geometry]                                                *)
(* A request is one step: the handler or function is run to its end.       *)
(***************************************************************************)
EXTENDS Integers, Sequences, FiniteSets, TLC

VARIABLES
    fn,         \* the function or handler of the last request, "none" before the first
    data,       \* its input: the provider's response body, or the GeoJSON payload
    upstream,   \* the environment keys and the outcome of the upstream HTTP calls
    encoded,    \* _decode_polyline's argument
    precision,  \* _decode_polyline's argument
    source,     \* the scaled points encoded into "encoded", <<>> when it is a given string
    outcome,    \* "none", "returned" or "raised"
    error,      \* the exception raised, "none" otherwise
    route,      \* the route returned (ors_hiking_route*, the handlers)
    snapped,    \* the snapped waypoints returned
    latlon,     \* the points _decode_polyline returned
    attempts,   \* the decode attempts of the call site, in order
    gpx,        \* the GPX document returned
    status,     \* the handler's HTTP status, 0 outside a handler
    args,       \* the other arguments of the request: form text, points, keys, x and y
    page,       \* the map page rendered
    file,       \* the output file of write_leaflet_map_html
    geocoded    \* what geocode_os_names returned

vars == <<fn, data, upstream, encoded, precision, source, outcome, error, route, snapped,
          latlon, attempts, gpx, status, args, page, file, geocoded>>

(***************************************************************************)
(* Bounds                                                                  *)
(***************************************************************************)
MaxStrLen == 4
MaxPoints == 2
MaxCoords == 3
MaxPath == 3

(***************************************************************************)
(* Integer helpers: Python's <<, >>, ~ and & 1 on unbounded integers       *)
(***************************************************************************)
RECURSIVE Pow(_, _)
Pow(base, e) == IF e = 0 THEN 1 ELSE base * Pow(base, e - 1)

Shl(b, shift) == b * Pow(2, shift)

\* x >> 1 rounds towards minus infinity
Shr1(x) == IF x >= 0 THEN x \div 2 ELSE -((1 - x) \div 2)

Inv(x) == -x - 1

LowBit(x) == IF x >= 0 THEN x % 2 ELSE (-x) % 2

Num(n, d) == [n |-> n, d |-> d]

(***************************************************************************)
(* _decode_polyline                                                        *)
(***************************************************************************)
RECURSIVE ReadChunks(_, _, _, _)
RECURSIVE DecodeLoop(_, _, _, _, _, _)
RECURSIVE DecodeLat(_, _, _, _, _, _)
RECURSIVE DecodeLon(_, _, _, _, _, _)

\* the IndexError of encoded[index]
DecodeError == [ok |-> FALSE, points |-> <<>>]

\* the step of an inner "while True" loop on the chunk b
Chunk(enc, index, result, shift, b) ==
    IF b < 31
    THEN [ok |-> TRUE, index |-> index + 1, result |-> result + Shl(b, shift)]
    ELSE ReadChunks(enc, index + 1, result + Shl(b, shift), shift + 5)

\* an inner "while True" loop: one signed delta, or ok = FALSE at the end of input
ReadChunks(enc, index, result, shift) ==
    IF index > Len(enc)
    THEN [ok |-> FALSE, index |-> index, result |-> result]
    ELSE Chunk(enc, index, result, shift, enc[index] - 63 - 1)

\* mutant: the sign bit is dropped instead of inverting
Delta_unsigned(result) == Shr1(result)

Delta(result) == IF LowBit(result) = 1 THEN Inv(Shr1(result)) ELSE Shr1(result)

\* the append of utils.py:46, then the next round of the outer loop
AppendPoint(enc, index, lat, lon, factor, coordinates) ==
    DecodeLoop(enc, index, lat, lon, factor,
               Append(coordinates, <<Num(lat, factor), Num(lon, factor)>>))

\* mutant: the end of input stops the loop and the points read so far are returned
DecodeLon_partial(enc, o, lat, lon, factor, coordinates) ==
    IF ~o.ok
    THEN [ok |-> TRUE, points |-> coordinates]
    ELSE AppendPoint(enc, o.index, lat, lon + Delta(o.result), factor, coordinates)

\* o: the longitude delta read by the second inner loop
DecodeLon(enc, o, lat, lon, factor, coordinates) ==
    IF ~o.ok
    THEN DecodeError
    ELSE AppendPoint(enc, o.index, lat, lon + Delta(o.result), factor, coordinates)

\* a: the latitude delta read by the first inner loop
DecodeLat(enc, a, lat, lon, factor, coordinates) ==
    IF ~a.ok
    THEN DecodeError
    ELSE DecodeLon(enc, ReadChunks(enc, a.index, 1, 0), lat + Delta(a.result), lon,
                   factor, coordinates)

\* the outer "while index < len(encoded)" loop
DecodeLoop(enc, index, lat, lon, factor, coordinates) ==
    IF index > Len(enc)
    THEN [ok |-> TRUE, points |-> coordinates]
    ELSE DecodeLat(enc, ReadChunks(enc, index, 1, 0), lat, lon, factor, coordinates)

\* mutant: above precision 5 a string that ends mid-sequence gives no points
\* instead of raising
decode_polyline_tolerant(enc, prec) ==
    IF prec > 5 /\ ~DecodeLoop(enc, 1, 0, 0, Pow(10, prec), <<>>).ok
    THEN [ok |-> TRUE, points |-> <<>>]
    ELSE DecodeLoop(enc, 1, 0, 0, Pow(10, prec), <<>>)

\* ok = FALSE is the IndexError of encoded[index]
decode_polyline(enc, prec) == DecodeLoop(enc, 1, 0, 0, Pow(10, prec), <<>>)

(***************************************************************************)
(* JSON values                                                             *)
(***************************************************************************)
NoCoords == [tag |-> "absent", points |-> <<>>, lines |-> <<>>]

PointsCoords(ps) == [tag |-> "points", points |-> ps, lines |-> <<>>]

LinesCoords(ls) == [tag |-> "lines", points |-> <<>>, lines |-> ls]

\* Python truthiness of geom.get("coordinates")
Truthy(c) == \/ c.tag = "points" /\ c.points # <<>>
             \/ c.tag = "lines" /\ c.lines # <<>>

DictGeom(gtype, c) == [kind |-> "dict", gtype |-> gtype, coordinates |-> c, str |-> <<>>]

StrGeom(s) == [kind |-> "str", gtype |-> "absent", coordinates |-> NoCoords, str |-> s]

\* a geometry that is neither a dict nor a string (null, a number)
OtherGeom == [kind |-> "other", gtype |-> "absent", coordinates |-> NoCoords, str |-> <<>>]

Feature(g) == [type |-> "Feature", geometry |-> g]

\* idx: an entry of way_points; int is the answer of isinstance(idx, int), FALSE
\* for a non-integer entry (a float, a string, null)
Idx(v) == [int |-> TRUE, v |-> v]

NonIntIdx == [int |-> FALSE, v |-> 0]

Route(g, hasWp, wp) == [geometry |-> g, hasWayPoints |-> hasWp, way_points |-> wp]

Response(type, hasFeatures, features, hasRoutes, routes, geometry) ==
    [isDict |-> TRUE, type |-> type, hasFeatures |-> hasFeatures, features |-> features,
     hasRoutes |-> hasRoutes, routes |-> routes, geometry |-> geometry]

\* a response body that is not a JSON object
NonDict == [isDict |-> FALSE, type |-> "absent", hasFeatures |-> FALSE, features |-> <<>>,
            hasRoutes |-> FALSE, routes |-> <<>>, geometry |-> OtherGeom]

\* the FeatureCollection literal built at utils.py:137-146 and 201-206
FeatureCollection(coords) ==
    Response("FeatureCollection", TRUE,
             <<Feature(DictGeom("LineString", PointsCoords(coords)))>>,
             FALSE, <<>>, OtherGeom)

(***************************************************************************)
(* Form text, keys, points, files and pages                                *)
(***************************************************************************)
\* an optional string: None, or an unset environment variable, is isNone
NoneStr == [isNone |-> TRUE, value |-> ""]

Str(v) == [isNone |-> FALSE, value |-> v]

\* an item of the JSON array of the form: a [lat, lon] list, a {"lat", "lon"}
\* object, or anything else
Item(kind, lat, lon) == [kind |-> kind, lat |-> lat, lon |-> lon]

\* json.loads(coords_text): kind is "list", "other" (valid JSON, not an array) or
\* "invalid" (json.loads raises)
Parsed(kind, items) == [kind |-> kind, items |-> items]

NoParsed == Parsed("invalid", <<>>)

\* a file of the file system
NoFile == [exists |-> FALSE, content |-> <<>>]

\* the values a map page is rendered from: the tile layers, the line drawn in
\* [lon, lat] order, the start and the markers in (lat, lon) order
Page(tiles, line, start, markers) ==
    [rendered |-> TRUE, tiles |-> tiles, line |-> line, start |-> start, markers |-> markers]

NoPage == [rendered |-> FALSE, tiles |-> <<>>, line |-> <<>>, start |-> <<>>, markers |-> <<>>]

\* results: what the OS Names response holds, "none" (no results), "noxy" (an
\* entry without GEOMETRY_X and GEOMETRY_Y) or "entry"; x, y: the entry's values
Args(parsed, points, os_api_key, environ, dotenv, output_file, results, x, y) ==
    [parsed |-> parsed, points |-> points, os_api_key |-> os_api_key, environ |-> environ,
     dotenv |-> dotenv, output_file |-> output_file, results |-> results, x |-> x, y |-> y]

NoArgs == Args(NoParsed, <<>>, NoneStr, NoneStr, NoneStr, NoFile, "none", Num(0, 1), Num(0, 1))

\* result: the tuple geocode_os_names returned
Geocode(o, e, result) == [outcome |-> o, error |-> e, result |-> result]

NoGeocode == Geocode("none", "none", <<>>)

(***************************************************************************)
(* What a function returns or raises                                       *)
(***************************************************************************)
\* log: the decode attempts made, doc: the GPX document
Result(o, e, r, sn, log, doc) ==
    [outcome |-> o, error |-> e, route |-> r, snapped |-> sn, log |-> log, doc |-> doc]

Raised(e, log) == Result("raised", e, NonDict, <<>>, log, <<>>)

ReturnedRoute(r, sn, log) == Result("returned", "none", r, sn, log, <<>>)

(***************************************************************************)
(* The decoding step of the three call sites                               *)
(***************************************************************************)
Attempt(prec, r) == [precision |-> prec, raised |-> ~r.ok]

\* mutant: precision 6 is attempted first
DecodeWithRetry_sixFirst(s) ==
    IF decode_polyline(s, 6).ok
    THEN [ok |-> TRUE, points |-> decode_polyline(s, 6).points,
          log |-> <<Attempt(6, decode_polyline(s, 6))>>]
    ELSE [ok |-> decode_polyline(s, 5).ok, points |-> decode_polyline(s, 5).points,
          log |-> <<Attempt(6, decode_polyline(s, 6)), Attempt(5, decode_polyline(s, 5))>>]

\* first: the attempt of the try block; second: the attempt of the except block,
\* made only when the first raised. log: the attempts in the order they are made
Retry(first, second) ==
    IF first.ok
    THEN [ok |-> TRUE, points |-> first.points, log |-> <<Attempt(5, first)>>]
    ELSE [ok |-> second.ok, points |-> second.points,
          log |-> <<Attempt(5, first), Attempt(6, second)>>]

\* try: _decode_polyline(geom, 5)  except: _decode_polyline(geom, 6)
DecodeWithRetry(s) == Retry(decode_polyline(s, 5), decode_polyline(s, 6))

\* mutant: the decoded (lat, lon) pairs are kept in that order
SwapPairs_unswapped(ll) == [i \in 1..Len(ll) |-> <<ll[i][1], ll[i][2]>>]

\* [[lon, lat] for (lat, lon) in latlon]
SwapPairs(ll) == [i \in 1..Len(ll) |-> <<ll[i][2], ll[i][1]>>]

Coords(c, log) == [ok |-> TRUE, coords |-> c, log |-> log, error |-> "none"]

NoCoordsFor(e, log) == [ok |-> FALSE, coords |-> <<>>, log |-> log, error |-> e]

\* d: the outcome of the decoding step
FromDecoded(d) ==
    IF d.ok THEN Coords(SwapPairs(d.points), d.log) ELSE NoCoordsFor("IndexError", d.log)

\* mutant: the coordinates of an object geometry are swapped as if they were decoded
RouteCoords_dictSwapped(geom) ==
    IF geom.kind = "dict" /\ Truthy(geom.coordinates)
    THEN Coords(SwapPairs(geom.coordinates.points), <<>>)
    ELSE IF geom.kind = "str"
    THEN FromDecoded(DecodeWithRetry(geom.str))
    ELSE NoCoordsFor("Unsupported", <<>>)

\* the geometry branch of the routes path: the coordinates of routes[0].geometry,
\* or ok = FALSE with error "Unsupported" (the else branch) or "IndexError" (decode)
RouteCoords(geom) ==
    IF geom.kind = "dict" /\ Truthy(geom.coordinates)
    THEN Coords(geom.coordinates.points, <<>>)
    ELSE IF geom.kind = "str"
    THEN FromDecoded(DecodeWithRetry(geom.str))
    ELSE NoCoordsFor("Unsupported", <<>>)

(***************************************************************************)
(* geocode_os_names                                                        *)
(***************************************************************************)
\* the longitude and latitude bounds of utils.py:75
MaxLon == 180

MaxLat == 90

\* abs(v) > k for the number v = n / d, d > 0
AbsExceeds(v, k) == (IF v.n < 0 THEN -v.n ELSE v.n) > k * v.d

\* mutant: the bounds themselves count as easting and northing
LooksProjected_inclusive(x, y) ==
    \/ (IF x.n < 0 THEN -x.n ELSE x.n) >= MaxLon * x.d
    \/ (IF y.n < 0 THEN -y.n ELSE y.n) >= MaxLat * y.d

\* abs(x) > 180 or abs(y) > 90
LooksProjected(x, y) == AbsExceeds(x, MaxLon) \/ AbsExceeds(y, MaxLat)

\* a value computed from the entry (x, y): "x" and "y" are the values themselves,
\* "lon" and "lat" the two results of pyproj's EPSG:27700 -> EPSG:4326
\* transform of (x, y), "entry" the gazetteer entry
Term(op, x, y) == [op |-> op, x |-> x, y |-> y]

\* transformer.transform(x, y) with always_xy: (lon, lat)
Transform(x, y) == <<Term("lon", x, y), Term("lat", x, y)>>

\* utils.py:75-79: lon, lat
LonLat(x, y) == IF LooksProjected(x, y) THEN Transform(x, y) ELSE <<Term("x", x, y), Term("y", x, y)>>

\* return lat, lon, entry
GeocodeReturn(lonlat, x, y) == Geocode("returned", "none", <<lonlat[2], lonlat[1], Term("entry", x, y)>>)

\* ok: the HTTP call succeeded; no results is an ExternalAPIError, an entry
\* without the two keys a KeyError
geocode_os_names(ok, results, x, y) ==
    IF ~ok \/ results = "none"
    THEN Geocode("raised", "ExternalAPIError", <<>>)
    ELSE IF results = "noxy"
    THEN Geocode("raised", "KeyError", <<>>)
    ELSE GeocodeReturn(LonLat(x, y), x, y)

(***************************************************************************)
(* ors_hiking_route                                                        *)
(***************************************************************************)
IsFeatureCollection(d) == d.isDict /\ d.type = "FeatureCollection" /\ d.hasFeatures /\ d.features # <<>>

HasRoutes(d) == d.isDict /\ d.hasRoutes /\ d.routes # <<>>

\* mutant: a geometry that gives no coordinates is wrapped as an empty line
WrapOrPass_emptyLine(d, rc) ==
    IF rc.ok
    THEN ReturnedRoute(FeatureCollection(rc.coords), <<>>, rc.log)
    ELSE ReturnedRoute(FeatureCollection(<<>>), <<>>, rc.log)

\* the try block of utils.py:120-148: an exception in it is passed over and the
\* response is returned as it is
WrapOrPass(d, rc) ==
    IF rc.ok
    THEN ReturnedRoute(FeatureCollection(rc.coords), <<>>, rc.log)
    ELSE ReturnedRoute(d, <<>>, rc.log)

\* mutant: the routes key is looked at before the FeatureCollection test
normalize_routesFirst(d) ==
    IF HasRoutes(d)
    THEN WrapOrPass(d, RouteCoords(d.routes[1].geometry))
    ELSE ReturnedRoute(d, <<>>, <<>>)

\* the post-processing of the response body, utils.py:114-151
normalize(d) ==
    IF IsFeatureCollection(d)
    THEN ReturnedRoute(d, <<>>, <<>>)
    ELSE IF HasRoutes(d)
    THEN WrapOrPass(d, RouteCoords(d.routes[1].geometry))
    ELSE ReturnedRoute(d, <<>>, <<>>)

\* r.raise_for_status() first: a failed HTTP call is an ExternalAPIError
ors_hiking_route(orsOk, d) ==
    IF ~orsOk THEN Raised("ExternalAPIError", <<>>) ELSE normalize(d)

(***************************************************************************)
(* ors_hiking_route_with_waypoints                                         *)
(***************************************************************************)
\* the loop of utils.py:212-215; ok = FALSE when unpacking "lon, lat = coords[idx]" raises
RECURSIVE SnapLoop(_, _, _, _)

\* mutant: a failed unpacking ends the scan and the points read so far are kept
SnapLoop_prefix(wp, i, coords, acc) ==
    IF i > Len(wp)
    THEN [ok |-> TRUE, points |-> acc]
    ELSE IF wp[i].int /\ 0 <= wp[i].v /\ wp[i].v < Len(coords)
    THEN IF Len(coords[wp[i].v + 1]) # 2
         THEN [ok |-> TRUE, points |-> acc]
         ELSE SnapLoop(wp, i + 1, coords,
                       Append(acc, <<coords[wp[i].v + 1][2], coords[wp[i].v + 1][1]>>))
    ELSE SnapLoop(wp, i + 1, coords, acc)

\* mutant: the first index that fails the test ends the scan
SnapLoop_stops(wp, i, coords, acc) ==
    IF i > Len(wp)
    THEN [ok |-> TRUE, points |-> acc]
    ELSE IF wp[i].int /\ 0 <= wp[i].v /\ wp[i].v < Len(coords)
    THEN IF Len(coords[wp[i].v + 1]) # 2
         THEN [ok |-> FALSE, points |-> <<>>]
         ELSE SnapLoop(wp, i + 1, coords,
                       Append(acc, <<coords[wp[i].v + 1][2], coords[wp[i].v + 1][1]>>))
    ELSE [ok |-> TRUE, points |-> acc]

SnapLoop(wp, i, coords, acc) ==
    IF i > Len(wp)
    THEN [ok |-> TRUE, points |-> acc]
    ELSE IF wp[i].int /\ 0 <= wp[i].v /\ wp[i].v < Len(coords)
    THEN IF Len(coords[wp[i].v + 1]) # 2
         THEN [ok |-> FALSE, points |-> <<>>]
         ELSE SnapLoop(wp, i + 1, coords,
                       Append(acc, <<coords[wp[i].v + 1][2], coords[wp[i].v + 1][1]>>))
    ELSE SnapLoop(wp, i + 1, coords, acc)

\* route0.get("way_points") or []
WayPoints(route0) == IF route0.hasWayPoints THEN route0.way_points ELSE <<>>

\* except Exception: snapped_latlon = []
OrEmpty(r) == IF r.ok THEN r.points ELSE <<>>

Snap(route0, coords) == OrEmpty(SnapLoop(WayPoints(route0), 1, coords, <<>>))

\* mutant: the snapping has no "except Exception", a failed unpacking leaves the function
WithGeometry_unguarded(route0, rc) ==
    IF rc.ok
    THEN IF SnapLoop(WayPoints(route0), 1, rc.coords, <<>>).ok
         THEN ReturnedRoute(FeatureCollection(rc.coords), Snap(route0, rc.coords), rc.log)
         ELSE Raised("ValueError", rc.log)
    ELSE IF rc.error = "Unsupported"
    THEN Raised("ExternalAPIError", rc.log)
    ELSE Raised(rc.error, rc.log)

\* utils.py:186-220, rc the coordinates of route0's geometry
WithGeometry(route0, rc) ==
    IF rc.ok
    THEN ReturnedRoute(FeatureCollection(rc.coords), Snap(route0, rc.coords), rc.log)
    ELSE IF rc.error = "Unsupported"
    THEN Raised("ExternalAPIError", rc.log)
    ELSE Raised(rc.error, rc.log)

\* data["routes"][0] first: without it an ExternalAPIError
with_waypoints_body(d) ==
    IF ~HasRoutes(d)
    THEN Raised("ExternalAPIError", <<>>)
    ELSE WithGeometry(d.routes[1], RouteCoords(d.routes[1].geometry))

ors_hiking_route_with_waypoints(orsOk, d) ==
    IF ~orsOk THEN Raised("ExternalAPIError", <<>>) ELSE with_waypoints_body(d)

(***************************************************************************)
(* geojson_to_gpx                                                          *)
(***************************************************************************)
\* mutant: the sub-lines of a MultiLineString are joined, the last after the first
extract_coords_joined(geom) ==
    IF geom.kind # "dict"
    THEN NoCoordsFor("AttributeError", <<>>)
    ELSE IF geom.gtype = "LineString"
    THEN Coords(geom.coordinates.points, <<>>)
    ELSE IF geom.gtype = "MultiLineString" /\ Truthy(geom.coordinates)
    THEN Coords(geom.coordinates.lines[1] \o geom.coordinates.lines[Len(geom.coordinates.lines)], <<>>)
    ELSE NoCoordsFor("ValueError", <<>>)

\* extract_coords(feature): a geometry that is not a dict has no .get (AttributeError)
extract_coords(geom) ==
    IF geom.kind # "dict"
    THEN NoCoordsFor("AttributeError", <<>>)
    ELSE IF geom.gtype = "LineString"
    THEN Coords(geom.coordinates.points, <<>>)
    ELSE IF geom.gtype = "MultiLineString" /\ Truthy(geom.coordinates)
    THEN Coords(geom.coordinates.lines[1], <<>>)
    ELSE NoCoordsFor("ValueError", <<>>)

\* the else branch of the routes path raises ValueError here
AsValueError(rc) ==
    [ok |-> rc.ok, coords |-> rc.coords, log |-> rc.log,
     error |-> IF rc.error = "Unsupported" THEN "ValueError" ELSE rc.error]

\* mutant: an input of no known shape gives an empty track instead of an error
gpx_coords_lenient(d) ==
    IF ~d.isDict
    THEN NoCoordsFor("AttributeError", <<>>)
    ELSE IF d.hasRoutes /\ d.routes # <<>>
    THEN AsValueError(RouteCoords(d.routes[1].geometry))
    ELSE IF d.hasFeatures /\ d.features # <<>>
    THEN extract_coords(d.features[1].geometry)
    ELSE IF d.type = "Feature"
    THEN extract_coords(d.geometry)
    ELSE Coords(<<>>, <<>>)

\* the coordinate resolution of utils.py:238-263
gpx_coords(d) ==
    IF ~d.isDict
    THEN NoCoordsFor("AttributeError", <<>>)
    ELSE IF d.hasRoutes /\ d.routes # <<>>
    THEN AsValueError(RouteCoords(d.routes[1].geometry))
    ELSE IF d.hasFeatures /\ d.features # <<>>
    THEN extract_coords(d.features[1].geometry)
    ELSE IF d.type = "Feature"
    THEN extract_coords(d.geometry)
    ELSE NoCoordsFor("ValueError", <<>>)

Header == [kind |-> "header", lat |-> Num(0, 1), lon |-> Num(0, 1)]

Footer == [kind |-> "footer", lat |-> Num(0, 1), lon |-> Num(0, 1)]

\* "for lon, lat in coords": one trkpt line per entry
TrkPts(coords) == [i \in 1..Len(coords) |-> [kind |-> "trkpt", lat |-> coords[i][2], lon |-> coords[i][1]]]

\* header, trkpt lines, footer; unpacking an entry that is not a pair raises
Document(c) ==
    IF ~c.ok
    THEN Raised(c.error, c.log)
    ELSE IF \E i \in 1..Len(c.coords) : Len(c.coords[i]) # 2
    THEN Raised("ValueError", c.log)
    ELSE Result("returned", "none", NonDict, <<>>, c.log, <<Header>> \o TrkPts(c.coords) \o <<Footer>>)

geojson_to_gpx(d) == Document(gpx_coords(d))

(***************************************************************************)
(* Handlers of main.py                                                     *)
(***************************************************************************)
Up(osKey, orsKey, geocodeOk, orsOk) ==
    [osKey |-> osKey, orsKey |-> orsKey, geocodeOk |-> geocodeOk, orsOk |-> orsOk]

AllOk == Up(TRUE, TRUE, TRUE, TRUE)

Answer(st, r, doc, log) == [status |-> st, route |-> r, doc |-> doc, log |-> log]

\* the common opening of /route, /gpx and /map: 0 when ors_hiking_route returned,
\* else the status of the HTTPException
RouteStatus(up) ==
    IF ~up.osKey \/ ~up.orsKey THEN 500
    ELSE IF ~up.geocodeOk \/ ~up.orsOk THEN 502
    ELSE 0

\* r: what ors_hiking_route returned
RouteAnswer(r) == Answer(200, r.route, <<>>, r.log)

\* POST /route
create_route(up, d) ==
    IF RouteStatus(up) # 0
    THEN Answer(RouteStatus(up), NonDict, <<>>, <<>>)
    ELSE RouteAnswer(ors_hiking_route(up.orsOk, d))

\* GET /map: the template is rendered with route_geojson
map_view(up, d) ==
    IF RouteStatus(up) # 0
    THEN Answer(RouteStatus(up), NonDict, <<>>, <<>>)
    ELSE RouteAnswer(ors_hiking_route(up.orsOk, d))

\* g: the outcome of geojson_to_gpx; except Exception: 500
GpxAnswer(log, g, failure) ==
    IF g.outcome = "raised"
    THEN Answer(failure, NonDict, <<>>, log \o g.log)
    ELSE Answer(200, NonDict, g.doc, log \o g.log)

\* r: what ors_hiking_route returned
GpxOfRoute(r) == GpxAnswer(r.log, geojson_to_gpx(r.route), 500)

\* POST /gpx
gpx_for_route(up, d) ==
    IF RouteStatus(up) # 0
    THEN Answer(RouteStatus(up), NonDict, <<>>, <<>>)
    ELSE GpxOfRoute(ors_hiking_route(up.orsOk, d))

\* POST /gpx-from-geojson
gpx_from_geojson(d) == GpxAnswer(<<>>, geojson_to_gpx(d), 400)

\* an answer with a map page
PageAnswer(st, r, log, p) == [status |-> st, route |-> r, doc |-> <<>>, log |-> log, page |-> p]

Failure(st) == PageAnswer(st, NonDict, <<>>, NoPage)

\* main.py:205-221: the (lat, lon) tuples of the form text. Not a JSON array of
\* at least two items, or an item that is neither a two-element list nor an
\* object with lat and lon: 400. float() of a list entry that is no number
\* raises past the handler: 500
FormCoords(parsed) ==
    IF parsed.kind # "list" \/ Len(parsed.items) < 2
    THEN [ok |-> FALSE, status |-> 400, coords |-> <<>>]
    ELSE IF \E i \in 1..Len(parsed.items) :
                /\ parsed.items[i].kind = "text"
                /\ \A j \in 1..(i - 1) : parsed.items[j].kind \in {"pair", "dict"}
    THEN [ok |-> FALSE, status |-> 500, coords |-> <<>>]
    ELSE IF \E i \in 1..Len(parsed.items) : parsed.items[i].kind = "other"
    THEN [ok |-> FALSE, status |-> 400, coords |-> <<>>]
    ELSE [ok |-> TRUE, status |-> 0,
          coords |-> [i \in 1..Len(parsed.items) |-> <<parsed.items[i].lat, parsed.items[i].lon>>]]

\* utils.py:220: "return feature_collection, snapped_latlon"
ReturnedTuple(r) == <<r.route, r.snapped>>

\* main.py:230: the number of names the returned tuple is unpacked into
UnpackTargets == 3

\* main.py:236-260, t the unpacked tuple: the OS key, the start, the markers
RenderCoords(up, coords, t, log) ==
    IF ~up.osKey
    THEN Failure(500)
    ELSE PageAnswer(200, t[1], log,
                    Page(<<>>, <<>>, IF t[2] # <<>> THEN t[2][1] ELSE coords[1],
                         IF t[2] # <<>> THEN t[2] ELSE coords))

\* main.py:229-234, r the outcome of ors_hiking_route_with_waypoints: an
\* ExternalAPIError is a 502, any other exception, the ValueError of the
\* unpacking included, a 500
AfterSnap(up, coords, r) ==
    IF r.outcome = "raised"
    THEN Failure(IF r.error = "ExternalAPIError" THEN 502 ELSE 500)
    ELSE IF Len(ReturnedTuple(r)) # UnpackTargets
    THEN Failure(500)
    ELSE RenderCoords(up, coords, ReturnedTuple(r), r.log)

\* c: the outcome of reading the form text
SnapForm(up, c, d) ==
    IF ~c.ok THEN Failure(c.status)
    ELSE IF ~up.orsKey THEN Failure(500)
    ELSE AfterSnap(up, c.coords, ors_hiking_route_with_waypoints(up.orsOk, d))

\* POST /ui/coords
coords_form_submit(up, parsed, d) == SnapForm(up, FormCoords(parsed), d)

(***************************************************************************)
(* library.py: the standalone Leaflet page                                 *)
(***************************************************************************)
\* what a function of library.py returns or raises, and the file it leaves
Html(o, e, p) == [outcome |-> o, error |-> e, page |-> p]

\* load_dotenv(), then os.getenv("OS_API_KEY"): a variable of the .env file
\* counts unless the process environment already has it
Getenv(environ, dotenv) == IF environ.isNone THEN dotenv ELSE environ

\* mutant: the environment is not consulted, None stays None
EffectiveKey_argumentOnly(os_api_key, environ, dotenv) == os_api_key

\* library.py:35-38
EffectiveKey(os_api_key, environ, dotenv) ==
    IF os_api_key.isNone THEN Getenv(environ, dotenv) ELSE os_api_key

OsRaster(key) == [layer |-> "api.os.uk/maps/raster", key |-> key]

OpenStreetMap == [layer |-> "tile.openstreetmap.org", key |-> ""]

\* mutant: the fallback layer is added under the Ordnance Survey layer
TileJs_both(key) ==
    IF ~key.isNone /\ key.value # ""
    THEN <<OsRaster(key.value), OpenStreetMap>>
    ELSE <<OpenStreetMap>>

\* library.py:55-70: "if os_api_key:" is false for None and for the empty string
TileJs(key) ==
    IF ~key.isNone /\ key.value # ""
    THEN <<OsRaster(key.value)>>
    ELSE <<OpenStreetMap>>

\* [[lon, lat] for lat, lon in points]
LonLatOf(points) == [i \in 1..Len(points) |-> <<points[i][2], points[i][1]>>]

\* library.py:40-261: the route, the start, the tile layer and the waypoints
\* array the page is written from (title and show_markers fill the title and
\* the marker loop only)
Render(points, key) == Html("returned", "none", Page(TileJs(key), LonLatOf(points), points[1], points))

\* mutant: a single point is drawn as well
generate_leaflet_map_html_onePoint(points, os_api_key, environ, dotenv) ==
    IF Len(points) < 1
    THEN Html("raised", "ValueError", NoPage)
    ELSE IF \E i \in 1..Len(points) : Len(points[i]) # 2
    THEN Html("raised", "ValueError", NoPage)
    ELSE Render(points, EffectiveKey(os_api_key, environ, dotenv))

\* fewer than two points: ValueError; unpacking a point that is not a pair
\* (library.py:41) raises ValueError too
generate_leaflet_map_html(points, os_api_key, environ, dotenv) ==
    IF Len(points) < 2
    THEN Html("raised", "ValueError", NoPage)
    ELSE IF \E i \in 1..Len(points) : Len(points[i]) # 2
    THEN Html("raised", "ValueError", NoPage)
    ELSE Render(points, EffectiveKey(os_api_key, environ, dotenv))

\* mutant: a file that exists is left as it is
Written_kept(output_file, h) ==
    IF h.outcome = "raised" \/ output_file.exists
    THEN output_file
    ELSE [exists |-> TRUE, content |-> <<h.page>>]

\* library.py:275-276: open(output_file, "w") and write, reached only when
\* generate_leaflet_map_html returned
Written(output_file, h) ==
    IF h.outcome = "raised" THEN output_file ELSE [exists |-> TRUE, content |-> <<h.page>>]

\* library.py:289-291: the first two entries of each waypoint's coordinates;
\* coordinates with fewer than two entries raise IndexError
generate_leaflet_map_html_from_waypoints(waypoints, os_api_key, environ, dotenv) ==
    IF \E i \in 1..Len(waypoints) : Len(waypoints[i]) < 2
    THEN Html("raised", "IndexError", NoPage)
    ELSE generate_leaflet_map_html([i \in 1..Len(waypoints) |-> <<waypoints[i][1], waypoints[i][2]>>],
                                   os_api_key, environ, dotenv)

(***************************************************************************)
(* Standard polyline encoding of scaled integer points (spec 4.2)          *)
(***************************************************************************)
RECURSIVE EncodeValue(_)
EncodeValue(v) ==
    IF v >= 32
    THEN <<32 + (v % 32) + 63>> \o EncodeValue(v \div 32)
    ELSE <<v + 63>>

EncodeDelta(dl) == EncodeValue(IF dl < 0 THEN Inv(2 * dl) ELSE 2 * dl)

\* pts: <<lat, lon>> pairs of integers (degrees scaled by 10^precision)
RECURSIVE EncodeFrom(_, _, _, _)
EncodeFrom(pts, i, lat, lon) ==
    IF i > Len(pts)
    THEN <<>>
    ELSE EncodeDelta(pts[i][1] - lat) \o EncodeDelta(pts[i][2] - lon)
         \o EncodeFrom(pts, i + 1, pts[i][1], pts[i][2])

Encode(pts) == EncodeFrom(pts, 1, 0, 0)

(***************************************************************************)
(* Inputs                                                                  *)
(***************************************************************************)
SeqsUpTo(S, n) == UNION {[1..k -> S] : k \in 0..n}

\* '?' (delta 0), '@' (delta -1), '_' (continuation), 'A' (delta 1)
Alphabet == {63, 64, 95}

DecodeAlphabet == {63, 64, 65, 95}

Strings == SeqsUpTo(Alphabet, MaxStrLen)

DecodeStrings == SeqsUpTo(DecodeAlphabet, MaxStrLen)

\* scaled coordinates: negative, zero, one-chunk, two-chunk and three-chunk deltas
ScaledInts == {-17, -1, 0, 16, 600}

PointSeqs == SeqsUpTo(ScaledInts \X ScaledInts, MaxPoints)

P1 == <<Num(-5, 10), Num(515, 10)>>

P2 == <<Num(-6, 10), Num(516, 10)>>

\* an entry with an elevation: [lon, lat, ele]
P3 == <<Num(-7, 10), Num(517, 10), Num(100, 1)>>

CoordSeqs == SeqsUpTo({P1, P2, P3}, MaxCoords)

RouteGeoms ==
    {DictGeom("absent", PointsCoords(c)) : c \in CoordSeqs}
    \cup {StrGeom(s) : s \in Strings}
    \cup {DictGeom("absent", NoCoords), OtherGeom}

NoWp == [has |-> FALSE, wp |-> <<>>]

WayPointSets ==
    {NoWp} \cup
    {[has |-> TRUE, wp |-> w] : w \in {<<>>, <<Idx(0), Idx(1)>>, <<Idx(0), Idx(2), Idx(5)>>,
                                       <<Idx(-1), Idx(0)>>, <<NonIntIdx, Idx(1)>>, <<Idx(0), Idx(0)>>}}

SecondRoute == Route(DictGeom("absent", PointsCoords(<<P2, P2>>)), FALSE, <<>>)

RoutesLists ==
    {<<>>} \cup {<<Route(g, FALSE, <<>>)>> : g \in RouteGeoms}
           \cup {<<Route(g, FALSE, <<>>), SecondRoute>> : g \in RouteGeoms}

F1 == Feature(DictGeom("LineString", PointsCoords(<<P2, P1>>)))

Envelopes ==
    {[type |-> "absent", hasFeatures |-> FALSE, features |-> <<>>],
     [type |-> "FeatureCollection", hasFeatures |-> FALSE, features |-> <<>>],
     [type |-> "FeatureCollection", hasFeatures |-> TRUE, features |-> <<>>],
     [type |-> "FeatureCollection", hasFeatures |-> TRUE, features |-> <<F1>>],
     [type |-> "absent", hasFeatures |-> TRUE, features |-> <<F1>>]}

RouteBodies ==
    {Response(e.type, e.hasFeatures, e.features, TRUE, rl, OtherGeom) : e \in Envelopes, rl \in RoutesLists}

WaypointBodies ==
    {Response("absent", FALSE, <<>>, TRUE, <<Route(g, w.has, w.wp)>>, OtherGeom) :
        g \in RouteGeoms, w \in WayPointSets}

LineSeqs == SeqsUpTo({<<P1, P2>>, <<P2>>}, 2)

FeatureGeoms ==
    {DictGeom("LineString", PointsCoords(c)) : c \in CoordSeqs}
    \cup {DictGeom("MultiLineString", LinesCoords(l)) : l \in LineSeqs}
    \cup {DictGeom("Point", NoCoords), DictGeom("absent", NoCoords), OtherGeom}

FeatureLists ==
    {<<>>} \cup {<<Feature(g)>> : g \in FeatureGeoms} \cup {<<Feature(g), F1>> : g \in FeatureGeoms}

FeatureBodies ==
    {Response(t, TRUE, fl, hr, <<>>, OtherGeom) :
        t \in {"FeatureCollection", "absent"}, fl \in FeatureLists, hr \in BOOLEAN}

SingleFeatures == {Response("Feature", FALSE, <<>>, FALSE, <<>>, g) : g \in FeatureGeoms}

\* a JSON object with none of the known keys, and a body that is not an object
Unknown == Response("absent", FALSE, <<>>, FALSE, <<>>, OtherGeom)

Bodies == RouteBodies \cup FeatureBodies \cup SingleFeatures \cup {Unknown, NonDict}

\* the JSON arrays of the form: [[lat, lon], ..], [{"lat", "lon"}, ..]
PairItem == Item("pair", Num(515, 10), Num(-5, 10))

DictItem == Item("dict", Num(516, 10), Num(-6, 10))

\* an item that is neither form (a three-element list, a number)
OtherItem == Item("other", Num(0, 1), Num(0, 1))

\* a two-element list of strings that are no numbers
TextItem == Item("text", Num(0, 1), Num(0, 1))

ValidForms == {Parsed("list", <<PairItem, DictItem>>), Parsed("list", <<DictItem, PairItem, PairItem>>)}

InvalidForms ==
    {NoParsed, Parsed("other", <<>>), Parsed("list", <<>>), Parsed("list", <<PairItem>>),
     Parsed("list", <<PairItem, OtherItem>>), Parsed("list", <<OtherItem, TextItem>>),
     Parsed("list", <<PairItem, TextItem, OtherItem>>)}

\* the form handler calls the provider only with a valid form and an ORS key,
\* and reads the OS key after the call
FormInputs ==
    {<<AllOk, p, d>> : p \in ValidForms, d \in WaypointBodies \cup {Unknown}}
    \cup {<<AllOk, p, NonDict>> : p \in InvalidForms}
    \cup {<<Up(TRUE, FALSE, TRUE, TRUE), p, NonDict>> : p \in ValidForms}
    \cup {<<Up(TRUE, TRUE, TRUE, FALSE), p, NonDict>> : p \in ValidForms}
    \cup {<<Up(FALSE, TRUE, TRUE, TRUE), p, d>> : p \in ValidForms, d \in WaypointBodies}

\* GEOMETRY_X and GEOMETRY_Y: degrees, the bounds, just past them, grid metres
XValues == {Num(-450000, 1), Num(-181, 1), Num(-1801, 10), Num(-180, 1), Num(-5, 10), Num(0, 1),
            Num(180, 1), Num(1801, 10), Num(181, 1), Num(450000, 1)}

YValues == {Num(-91, 1), Num(-901, 10), Num(-90, 1), Num(0, 1), Num(515, 10), Num(90, 1),
            Num(901, 10), Num(91, 1), Num(100000, 1)}

GeocodeInputs ==
    {<<TRUE, "entry", x, y>> : x \in XValues, y \in YValues}
    \cup {<<TRUE, "none", Num(0, 1), Num(0, 1)>>, <<TRUE, "noxy", Num(0, 1), Num(0, 1)>>,
          <<FALSE, "none", Num(0, 1), Num(0, 1)>>}

\* (lat, lon) points of a path, and a point with an elevation
Q1 == <<Num(51713, 1000), Num(-786, 1000)>>

Q2 == <<Num(517125, 10000), Num(-787, 1000)>>

Q3 == <<Num(51712, 1000), Num(-788, 1000), Num(100, 1)>>

Paths == SeqsUpTo({Q1, Q2}, MaxPath) \cup {<<Q3>>, <<Q1, Q3>>}

\* coordinates of waypoint objects, one of them a single number
WaypointPaths == Paths \cup {<<<<Num(51713, 1000)>>>>, <<Q1, <<Num(51713, 1000)>>, Q2>>}

\* the os_api_key argument; OS_API_KEY in the process environment and in .env
KeyArgs == {NoneStr, Str(""), Str("arg-key")}

Environs == {NoneStr, Str(""), Str("env-key")}

Dotenvs == {NoneStr, Str("dotenv-key")}

\* the output file before the call: missing, or holding an older page
OldFile == [exists |-> TRUE, content |-> <<Page(<<OpenStreetMap>>, <<>>, Q3, <<>>)>>]

OutputFiles == {NoFile, OldFile}

\* the upstream failures a handler can meet, one at a time
Failures == {Up(FALSE, TRUE, TRUE, TRUE), Up(TRUE, FALSE, TRUE, TRUE),
             Up(TRUE, TRUE, FALSE, TRUE), Up(TRUE, TRUE, TRUE, FALSE)}

(***************************************************************************)
(* The requests                                                            *)
(***************************************************************************)
Init ==
    /\ fn = "none"
    /\ data = NonDict
    /\ upstream = AllOk
    /\ encoded = <<>>
    /\ precision = 5
    /\ source = <<>>
    /\ outcome = "none"
    /\ error = "none"
    /\ route = NonDict
    /\ snapped = <<>>
    /\ latlon = <<>>
    /\ attempts = <<>>
    /\ gpx = <<>>
    /\ status = 0
    /\ args = NoArgs
    /\ page = NoPage
    /\ file = NoFile
    /\ geocoded = NoGeocode

\* the variables a request to the library, the form handler or the geocoder sets
Extra(a, p, f, g) ==
    /\ args' = a
    /\ page' = p
    /\ file' = f
    /\ geocoded' = g

\* a call of function f of utils.py on the body d, with result r
Returns(f, up, d, r) ==
    /\ fn' = f
    /\ upstream' = up
    /\ data' = d
    /\ encoded' = <<>>
    /\ precision' = 5
    /\ source' = <<>>
    /\ latlon' = <<>>
    /\ outcome' = r.outcome
    /\ error' = r.error
    /\ route' = r.route
    /\ snapped' = r.snapped
    /\ attempts' = r.log
    /\ gpx' = r.doc
    /\ status' = 0
    /\ Extra(NoArgs, NoPage, NoFile, NoGeocode)

\* a request to handler f of main.py, with answer h
Answers(f, up, d, h) ==
    /\ fn' = f
    /\ upstream' = up
    /\ data' = d
    /\ encoded' = <<>>
    /\ precision' = 5
    /\ source' = <<>>
    /\ latlon' = <<>>
    /\ outcome' = IF h.status = 200 THEN "returned" ELSE "raised"
    /\ error' = IF h.status = 200 THEN "none" ELSE "HTTPException"
    /\ route' = h.route
    /\ snapped' = <<>>
    /\ attempts' = h.log
    /\ gpx' = h.doc
    /\ status' = h.status
    /\ Extra(NoArgs, NoPage, NoFile, NoGeocode)

\* a request to handler f of main.py that renders a page, with answer h
Renders(f, up, d, a, h) ==
    /\ fn' = f
    /\ upstream' = up
    /\ data' = d
    /\ encoded' = <<>>
    /\ precision' = 5
    /\ source' = <<>>
    /\ latlon' = <<>>
    /\ outcome' = IF h.status = 200 THEN "returned" ELSE "raised"
    /\ error' = IF h.status = 200 THEN "none" ELSE "HTTPException"
    /\ route' = h.route
    /\ snapped' = <<>>
    /\ attempts' = h.log
    /\ gpx' = <<>>
    /\ status' = h.status
    /\ Extra(a, h.page, NoFile, NoGeocode)

\* a direct call of _decode_polyline, with result r
Decodes(s, p, src, r) ==
    /\ fn' = "_decode_polyline"
    /\ upstream' = AllOk
    /\ data' = NonDict
    /\ encoded' = s
    /\ precision' = p
    /\ source' = src
    /\ outcome' = IF r.ok THEN "returned" ELSE "raised"
    /\ error' = IF r.ok THEN "none" ELSE "IndexError"
    /\ latlon' = r.points
    /\ route' = NonDict
    /\ snapped' = <<>>
    /\ attempts' = <<>>
    /\ gpx' = <<>>
    /\ status' = 0
    /\ Extra(NoArgs, NoPage, NoFile, NoGeocode)

CallDecodePolyline ==
    /\ fn = "none"
    /\ \E s \in DecodeStrings, p \in {5, 6} : Decodes(s, p, <<>>, decode_polyline(s, p))

\* encode a known point sequence, then decode it
RoundTrip ==
    /\ fn = "none"
    /\ \E pts \in PointSeqs, p \in {5, 6} :
           Decodes(Encode(pts), p, pts, decode_polyline(Encode(pts), p))

\* no body is there when the upstream call failed
BodyIf(ok, d) == IF ok THEN d ELSE NonDict

CallOrsHikingRoute ==
    /\ fn = "none"
    /\ \E d \in Bodies, orsOk \in BOOLEAN :
           Returns("ors_hiking_route", Up(TRUE, TRUE, TRUE, orsOk), BodyIf(orsOk, d),
                   ors_hiking_route(orsOk, BodyIf(orsOk, d)))

CallOrsHikingRouteWithWaypoints ==
    /\ fn = "none"
    /\ \E d \in Bodies \cup WaypointBodies, orsOk \in BOOLEAN :
           Returns("ors_hiking_route_with_waypoints", Up(TRUE, TRUE, TRUE, orsOk), BodyIf(orsOk, d),
                   ors_hiking_route_with_waypoints(orsOk, BodyIf(orsOk, d)))

CallGeojsonToGpx ==
    /\ fn = "none"
    /\ \E d \in Bodies : Returns("geojson_to_gpx", AllOk, d, geojson_to_gpx(d))

\* no body reaches the handler when a key is missing or an upstream call failed
HandlerInputs == {<<AllOk, d>> : d \in Bodies} \cup {<<up, NonDict>> : up \in Failures}

PostRoute ==
    /\ fn = "none"
    /\ \E in \in HandlerInputs : Answers("create_route", in[1], in[2], create_route(in[1], in[2]))

GetMap ==
    /\ fn = "none"
    /\ \E in \in HandlerInputs : Answers("map_view", in[1], in[2], map_view(in[1], in[2]))

PostGpx ==
    /\ fn = "none"
    /\ \E in \in HandlerInputs : Answers("gpx_for_route", in[1], in[2], gpx_for_route(in[1], in[2]))

PostGpxFromGeojson ==
    /\ fn = "none"
    /\ \E d \in Bodies \ {NonDict} : Answers("gpx_from_geojson", AllOk, d, gpx_from_geojson(d))

\* a call of geocode_os_names, with result g
Geocodes(ok, results, x, y, g) ==
    /\ fn' = "geocode_os_names"
    /\ upstream' = Up(TRUE, TRUE, ok, TRUE)
    /\ data' = NonDict
    /\ encoded' = <<>>
    /\ precision' = 5
    /\ source' = <<>>
    /\ latlon' = <<>>
    /\ outcome' = g.outcome
    /\ error' = g.error
    /\ route' = NonDict
    /\ snapped' = <<>>
    /\ attempts' = <<>>
    /\ gpx' = <<>>
    /\ status' = 0
    /\ Extra(Args(NoParsed, <<>>, NoneStr, NoneStr, NoneStr, NoFile, results, x, y),
             NoPage, NoFile, g)

CallGeocodeOsNames ==
    /\ fn = "none"
    /\ \E in \in GeocodeInputs :
           Geocodes(in[1], in[2], in[3], in[4], geocode_os_names(in[1], in[2], in[3], in[4]))

LibraryArgs(points, os_api_key, environ, dotenv, output_file) ==
    Args(NoParsed, points, os_api_key, environ, dotenv, output_file, "none", Num(0, 1), Num(0, 1))

\* a call of function f of library.py, with result h and the file f2 it leaves
Library(f, a, h, f2) ==
    /\ fn' = f
    /\ upstream' = AllOk
    /\ data' = NonDict
    /\ encoded' = <<>>
    /\ precision' = 5
    /\ source' = <<>>
    /\ latlon' = <<>>
    /\ outcome' = h.outcome
    /\ error' = h.error
    /\ route' = NonDict
    /\ snapped' = <<>>
    /\ attempts' = <<>>
    /\ gpx' = <<>>
    /\ status' = 0
    /\ Extra(a, h.page, f2, NoGeocode)

CallGenerateLeafletMapHtml ==
    /\ fn = "none"
    /\ \E pts \in Paths, k \in KeyArgs, e \in Environs, de \in Dotenvs :
           Library("generate_leaflet_map_html", LibraryArgs(pts, k, e, de, NoFile),
                   generate_leaflet_map_html(pts, k, e, de), NoFile)

\* a call of write_leaflet_map_html, h what generate_leaflet_map_html gave it
Writes(a, h) == Library("write_leaflet_map_html", a, h, Written(a.output_file, h))

CallWriteLeafletMapHtml ==
    /\ fn = "none"
    /\ \E pts \in Paths, k \in KeyArgs, e \in Environs, de \in Dotenvs, out \in OutputFiles :
           Writes(LibraryArgs(pts, k, e, de, out), generate_leaflet_map_html(pts, k, e, de))

CallGenerateFromWaypoints ==
    /\ fn = "none"
    /\ \E wps \in WaypointPaths, k \in KeyArgs, e \in Environs, de \in Dotenvs :
           Library("generate_leaflet_map_html_from_waypoints", LibraryArgs(wps, k, e, de, NoFile),
                   generate_leaflet_map_html_from_waypoints(wps, k, e, de), NoFile)

FormArgs(parsed) == Args(parsed, <<>>, NoneStr, NoneStr, NoneStr, NoFile, "none", Num(0, 1), Num(0, 1))

PostCoordsForm ==
    /\ fn = "none"
    /\ \E in \in FormInputs :
           Renders("coords_form_submit", in[1], in[3], FormArgs(in[2]),
                   coords_form_submit(in[1], in[2], in[3]))

\* the request is over: its values are discarded (spec 3, lifecycle)
Finish ==
    /\ fn # "none"
    /\ fn' = "none"
    /\ data' = NonDict
    /\ upstream' = AllOk
    /\ encoded' = <<>>
    /\ precision' = 5
    /\ source' = <<>>
    /\ outcome' = "none"
    /\ error' = "none"
    /\ route' = NonDict
    /\ snapped' = <<>>
    /\ latlon' = <<>>
    /\ attempts' = <<>>
    /\ gpx' = <<>>
    /\ status' = 0
    /\ Extra(NoArgs, NoPage, NoFile, NoGeocode)

Next ==
    \/ CallDecodePolyline
    \/ RoundTrip
    \/ CallOrsHikingRoute
    \/ CallOrsHikingRouteWithWaypoints
    \/ CallGeojsonToGpx
    \/ PostRoute
    \/ GetMap
    \/ PostGpx
    \/ PostGpxFromGeojson
    \/ PostCoordsForm
    \/ CallGeocodeOsNames
    \/ CallGenerateLeafletMapHtml
    \/ CallWriteLeafletMapHtml
    \/ CallGenerateFromWaypoints
    \/ Finish

Spec == Init /\ [][Next]_vars

(***************************************************************************)
(* Properties                                                              *)
(***************************************************************************)
Normalizing == {"ors_hiking_route", "ors_hiking_route_with_waypoints"}

\* a FeatureCollection with exactly one Feature, a LineString
IsSingleLineString(r) ==
    /\ r.isDict
    /\ r.type = "FeatureCollection"
    /\ r.hasFeatures
    /\ Len(r.features) = 1
    /\ r.features[1].type = "Feature"
    /\ r.features[1].geometry.kind = "dict"
    /\ r.features[1].geometry.gtype = "LineString"
    /\ r.features[1].geometry.coordinates.tag = "points"

Line(r) == r.features[1].geometry.coordinates.points

\* none of the known shapes
Unrecognized(d) ==
    /\ ~IsFeatureCollection(d)
    /\ ~(d.hasRoutes /\ d.routes # <<>>)
    /\ ~d.hasFeatures
    /\ d.type # "Feature"

\* routes[0].geometry is neither an object with non-empty coordinates nor a string
UnsupportedRouteGeometry(d) ==
    /\ d.isDict /\ d.hasRoutes /\ d.routes # <<>>
    /\ d.routes[1].geometry.kind # "str"
    /\ ~(d.routes[1].geometry.kind = "dict" /\ d.routes[1].geometry.coordinates.points # <<>>)

\* C1: whatever ors_hiking_route returns is the input itself when the input is a
\* FeatureCollection with non-empty features, and otherwise a FeatureCollection
\* with exactly one LineString Feature; no other shape is returned.
C1_OnlyCanonicalShapes ==
    (fn = "ors_hiking_route" /\ outcome = "returned") =>
        \/ IsFeatureCollection(data) /\ route = data
        \/ ~IsFeatureCollection(data) /\ IsSingleLineString(route)

\* C2: on a response of no known shape ors_hiking_route raises, and /route and
\* /map never answer 200 with the unrecognized structure as the route.
C2_UnrecognizedRaises ==
    (Unrecognized(data) /\ upstream = AllOk) =>
        /\ fn = "ors_hiking_route" => outcome = "raised"
        /\ fn \in {"create_route", "map_view"} => ~(status = 200 /\ route = data)
        /\ fn = "gpx_for_route" => status # 200

\* C3: when routes[0].geometry is neither an object with non-empty coordinates
\* nor a string, both normalizing entry points raise and return no route.
C3_UnsupportedGeometryRaises ==
    (fn \in Normalizing /\ upstream.orsOk /\ ~IsFeatureCollection(data)
        /\ UnsupportedRouteGeometry(data)) =>
        outcome = "raised"

\* C4: a response that is not a FeatureCollection and whose routes[0].geometry is
\* an object with non-empty coordinates yields one LineString Feature whose
\* coordinates are exactly routes[0].geometry.coordinates; later routes are ignored.
C4Case ==
    /\ fn \in Normalizing
    /\ upstream.orsOk
    /\ ~IsFeatureCollection(data)
    /\ data.isDict /\ data.hasRoutes /\ data.routes # <<>>
    /\ data.routes[1].geometry.kind = "dict"
    /\ data.routes[1].geometry.coordinates.points # <<>>

C4_RoutesCoordinatesKept ==
    C4Case =>
        /\ outcome = "returned"
        /\ IsSingleLineString(route)
        /\ Len(Line(route)) = Len(data.routes[1].geometry.coordinates.points)
        /\ \A i \in 1..Len(Line(route)) :
               Line(route)[i] = data.routes[1].geometry.coordinates.points[i]

C4_Witness ==
    /\ C4Case
    /\ fn = "ors_hiking_route"
    /\ Len(data.routes) = 2
    /\ data.routes[1].geometry.coordinates.points = <<P1, P2>>
    /\ Line(route) = <<P1, P2>>

\* the geometry that path 3 consults
C5Geometry == IF data.type = "Feature" /\ ~data.hasFeatures THEN data.geometry
              ELSE data.features[1].geometry

C5Case ==
    /\ fn = "ors_hiking_route"
    /\ upstream.orsOk
    /\ data.isDict
    /\ ~(data.hasRoutes /\ data.routes # <<>>)
    /\ \/ data.type = "absent" /\ data.hasFeatures /\ data.features # <<>>
       \/ data.type = "Feature" /\ ~data.hasFeatures

\* C5: a features list with no top-level type, or a single Feature, is wrapped
\* into one LineString Feature: the coordinates of a LineString, the first
\* sub-line of a MultiLineString; any other geometry type raises.
C5_FeaturePathWrapped ==
    C5Case =>
        IF C5Geometry.kind = "dict" /\ C5Geometry.gtype = "LineString"
        THEN /\ outcome = "returned" /\ IsSingleLineString(route)
             /\ Line(route) = C5Geometry.coordinates.points
        ELSE IF C5Geometry.kind = "dict" /\ C5Geometry.gtype = "MultiLineString"
                /\ C5Geometry.coordinates.lines # <<>>
        THEN /\ outcome = "returned" /\ IsSingleLineString(route)
             /\ Line(route) = C5Geometry.coordinates.lines[1]
        ELSE outcome = "raised"

\* C6: normalizing the result of ors_hiking_route again changes nothing, and a
\* FeatureCollection with non-empty features is returned as it is, whatever its
\* features' geometry types and whether or not it also carries routes.
C6_Idempotent ==
    (fn = "ors_hiking_route" /\ outcome = "returned") =>
        /\ normalize(route).route = route
        /\ IsFeatureCollection(data) => route = data

C6_Witness ==
    /\ fn = "ors_hiking_route"
    /\ outcome = "returned"
    /\ IsFeatureCollection(data)
    /\ data.hasRoutes /\ data.routes # <<>>
    /\ data.routes[1].geometry.kind = "dict"
    /\ data.routes[1].geometry.coordinates.points # <<>>
    /\ route = data

\* C7: decoding the standard encoding of scaled integer points at precision p
\* gives back the same number of points, in order, each n / 10^p with n the
\* original scaled latitude and longitude.
C7_RoundTrip ==
    (fn = "_decode_polyline" /\ encoded = Encode(source)) =>
        /\ outcome = "returned"
        /\ Len(latlon) = Len(source)
        /\ \A i \in 1..Len(source) :
               /\ latlon[i][1] = Num(source[i][1], Pow(10, precision))
               /\ latlon[i][2] = Num(source[i][2], Pow(10, precision))

\* a negative delta, a zero delta and a three-chunk delta, at precision 6
C7_Witness ==
    /\ fn = "_decode_polyline"
    /\ precision = 6
    /\ source = <<<<600, 0>>, <<-17, 0>>>>
    /\ encoded = Encode(source)
    /\ Len(encoded) > 4
    /\ outcome = "returned"

\* the number of complete values in s: the characters without continuation bit
Terminators(s) == Cardinality({i \in 1..Len(s) : s[i] - 63 < 32})

\* s ends in a continuation chunk, or holds a latitude without its longitude
Truncated(s) ==
    /\ s # <<>>
    /\ \/ s[Len(s)] - 63 >= 32
       \/ Terminators(s) % 2 = 1

\* C8: on a string that ends mid-sequence _decode_polyline raises and returns
\* no point list, not even the points decoded before the end.
C8_TruncatedRaises ==
    (fn = "_decode_polyline" /\ Truncated(encoded)) =>
        /\ outcome = "raised"
        /\ error = "IndexError"
        /\ latlon = <<>>

\* one complete point, then a latitude with no longitude
C8_Witness ==
    /\ fn = "_decode_polyline"
    /\ Len(encoded) = 3
    /\ Terminators(encoded) = 3
    /\ outcome = "raised"

\* the call sites of the decoding step and the string geometry each consults
DecodingSites == {"ors_hiking_route", "ors_hiking_route_with_waypoints", "geojson_to_gpx"}

ConsultsString ==
    /\ fn \in DecodingSites
    /\ upstream.orsOk
    /\ data.isDict /\ data.hasRoutes /\ data.routes # <<>>
    /\ data.routes[1].geometry.kind = "str"
    /\ fn = "ors_hiking_route" => ~IsFeatureCollection(data)

\* C9: at each call site precision 5 is attempted first, precision 6 only after
\* the precision-5 attempt raised, and the decode failure leaves the decoding
\* step only after both attempts raised.
C9_RetryOrder ==
    fn \in DecodingSites =>
        /\ ConsultsString <=> attempts # <<>>
        /\ Len(attempts) <= 2
        /\ attempts # <<>> => attempts[1].precision = 5
        /\ Len(attempts) = 2 <=> (attempts # <<>> /\ attempts[1].raised)
        /\ Len(attempts) = 2 => attempts[2].precision = 6
        /\ error = "IndexError" =>
               /\ Len(attempts) = 2
               /\ attempts[1].raised
               /\ attempts[2].raised
        /\ (attempts # <<>> /\ fn # "ors_hiking_route" /\ outcome = "returned") =>
               ~attempts[Len(attempts)].raised

C9_Witness ==
    /\ fn = "geojson_to_gpx"
    /\ ConsultsString
    /\ Len(attempts) = 2
    /\ attempts[2].precision = 6
    /\ error = "IndexError"

\* the points the string geometry decodes to
Decoded == decode_polyline(data.routes[1].geometry.str, 5)

C10Case == ConsultsString /\ Decoded.ok

\* C10: a string geometry that decodes to (lat_1, lon_1) .. (lat_n, lon_n) gives
\* the line [[lon_1, lat_1], .. , [lon_n, lat_n]]: same length, same order,
\* each pair swapped once; geojson_to_gpx writes its track points from that list.
C10_LonLatOrder ==
    C10Case =>
        /\ outcome = "returned"
        /\ fn \in Normalizing =>
               /\ IsSingleLineString(route)
               /\ Len(Line(route)) = Len(Decoded.points)
               /\ \A i \in 1..Len(Decoded.points) :
                      /\ Len(Line(route)[i]) = 2
                      /\ Line(route)[i][1] = Decoded.points[i][2]
                      /\ Line(route)[i][2] = Decoded.points[i][1]
        /\ fn = "geojson_to_gpx" =>
               /\ Len(gpx) = Len(Decoded.points) + 2
               /\ \A i \in 1..Len(Decoded.points) :
                      /\ gpx[i + 1].kind = "trkpt"
                      /\ gpx[i + 1].lat = Decoded.points[i][1]
                      /\ gpx[i + 1].lon = Decoded.points[i][2]

\* two points whose latitude and longitude differ
C10_Witness ==
    /\ C10Case
    /\ fn = "ors_hiking_route_with_waypoints"
    /\ Len(Decoded.points) = 2
    /\ Decoded.points[1][1] # Decoded.points[1][2]
    /\ Decoded.points[1] # Decoded.points[2]
    /\ Len(Line(route)) = 2

\* the index list the snapping scans: route0.get("way_points") or []
IndexList == WayPoints(data.routes[1])

\* an index that names an entry of a line of n points
InRange(idx, n) == idx.int /\ 0 <= idx.v /\ idx.v < n

\* the entries of the index list that name a point of the line, in order
ValidIndices == SelectSeq(IndexList, LAMBDA idx : InRange(idx, Len(Line(route))))

\* every entry of the line is a [lon, lat] pair
PairsOnly == \A i \in 1..Len(Line(route)) : Len(Line(route)[i]) = 2

SnapCase ==
    /\ fn = "ors_hiking_route_with_waypoints"
    /\ outcome = "returned"

\* C11: on a route of [lon, lat] pairs the snapped list is, in the order of the
\* index list, the (lat, lon) of the entry at each integer index i with
\* 0 <= i < pointCount; other indices add nothing, a repeated index is repeated,
\* and the list is never longer than the index list.
C11_SnapByIndex ==
    (SnapCase /\ PairsOnly) =>
        /\ Len(snapped) = Len(ValidIndices)
        /\ Len(snapped) <= Len(IndexList)
        /\ \A k \in 1..Len(ValidIndices) :
               /\ snapped[k][1] = Line(route)[ValidIndices[k].v + 1][2]
               /\ snapped[k][2] = Line(route)[ValidIndices[k].v + 1][1]

\* indices [0, 2, 5] on a route of three points: the points at 0 and 2
C11_Witness ==
    /\ SnapCase
    /\ PairsOnly
    /\ Len(Line(route)) = 3
    /\ IndexList = <<Idx(0), Idx(2), Idx(5)>>
    /\ Line(route)[1] # Line(route)[3]
    /\ snapped = <<<<Line(route)[1][2], Line(route)[1][1]>>,
                   <<Line(route)[3][2], Line(route)[3][1]>>>>

\* the geometry of routes[0] gives a coordinate list: an object with non-empty
\* coordinates, or a string that decodes
GeometryResolved ==
    /\ fn = "ors_hiking_route_with_waypoints"
    /\ upstream.orsOk
    /\ HasRoutes(data)
    /\ RouteCoords(data.routes[1].geometry).ok

\* C12: once the geometry of routes[0] is resolved, ors_hiking_route_with_waypoints
\* returns the FeatureCollection and a snapped list whatever way_points holds; the
\* list is empty when the index list is absent or empty, and strictly shorter
\* than the index list when an index is out of range or not an integer.
C12_SnapNeverRaises ==
    GeometryResolved =>
        /\ outcome = "returned"
        /\ IsSingleLineString(route)
        /\ IndexList = <<>> => snapped = <<>>
        /\ (\E k \in 1..Len(IndexList) : ~InRange(IndexList[k], Len(Line(route)))) =>
               Len(snapped) < Len(IndexList)

\* an index list with an out-of-range entry on a route whose unpacking fails
C12_Witness ==
    /\ GeometryResolved
    /\ outcome = "returned"
    /\ IndexList = <<Idx(0), Idx(2), Idx(5)>>
    /\ Len(Line(route)) = 3
    /\ Len(Line(route)[1]) = 3
    /\ snapped = <<>>

\* what the provider call of the form handler gives
SnapResult == ors_hiking_route_with_waypoints(upstream.orsOk, data)

C13Case ==
    /\ fn = "coords_form_submit"
    /\ FormCoords(args.parsed).ok
    /\ upstream.osKey /\ upstream.orsKey
    /\ SnapResult.outcome = "returned"

\* C13: with valid input coordinates, both keys set and a provider call that
\* returned, POST /ui/coords renders the map page: markers and start from the
\* snapped waypoints when there are any, from the input coordinates otherwise.
C13_CallerFallback ==
    C13Case =>
        /\ status = 200
        /\ page.rendered
        /\ page.markers = IF SnapResult.snapped # <<>> THEN SnapResult.snapped
                          ELSE FormCoords(args.parsed).coords
        /\ page.start = page.markers[1]

\* the input has a non-empty routes list
RoutesGiven == data.hasRoutes /\ data.routes # <<>>

\* the geometry geojson_to_gpx consults: of routes[0], else of features[0],
\* else of the Feature itself
GpxGeometry ==
    IF RoutesGiven THEN data.routes[1].geometry
    ELSE IF data.hasFeatures /\ data.features # <<>> THEN data.features[1].geometry
    ELSE data.geometry

\* the coordinate sequence of that geometry: the coordinates of routes[0] or
\* of a LineString, the first sub-line of a MultiLineString
GpxLine ==
    IF RoutesGiven \/ GpxGeometry.gtype = "LineString"
    THEN GpxGeometry.coordinates.points
    ELSE GpxGeometry.coordinates.lines[1]

\* geojson_to_gpx is given an input with a coordinate sequence of pairs
C14Case ==
    /\ fn = "geojson_to_gpx"
    /\ data.isDict
    /\ RoutesGiven \/ (data.hasFeatures /\ data.features # <<>>) \/ data.type = "Feature"
    /\ GpxGeometry.kind = "dict"
    /\ IF RoutesGiven THEN GpxGeometry.coordinates.points # <<>>
       ELSE \/ GpxGeometry.gtype = "LineString"
            \/ GpxGeometry.gtype = "MultiLineString" /\ GpxGeometry.coordinates.lines # <<>>
    /\ \A i \in 1..Len(GpxLine) : Len(GpxLine[i]) = 2

\* C14: when the input gives a sequence c_1 .. c_n of [lon, lat] pairs (of a
\* MultiLineString the first sub-line only), the document is the header, then
\* n trkpt lines in input order, the i-th with lat = c_i[1] and lon = c_i[0]
\* and nothing else, then the footer.
C14_OneTrkptPerPoint ==
    C14Case =>
        /\ outcome = "returned"
        /\ Len(gpx) = Len(GpxLine) + 2
        /\ gpx[1] = Header
        /\ gpx[Len(gpx)] = Footer
        /\ \A i \in 1..Len(GpxLine) :
               gpx[i + 1] = [kind |-> "trkpt", lat |-> GpxLine[i][2], lon |-> GpxLine[i][1]]

\* a MultiLineString Feature with two sub-lines: the two points of the first
C14_Witness ==
    /\ C14Case
    /\ data.type = "Feature"
    /\ GpxGeometry.gtype = "MultiLineString"
    /\ Len(GpxGeometry.coordinates.lines) = 2
    /\ Len(GpxLine) = 2
    /\ GpxLine[1] # GpxLine[2]
    /\ Len(gpx) = 4

\* the route ors_hiking_route makes of the input of geojson_to_gpx
Normalized == normalize(data).route

\* that route carries a line: its first feature is a LineString, or a
\* MultiLineString with a sub-line
NormalizedHasLine ==
    /\ Normalized.isDict /\ Normalized.hasFeatures /\ Normalized.features # <<>>
    /\ Normalized.features[1].geometry.kind = "dict"
    /\ \/ Normalized.features[1].geometry.gtype = "LineString"
       \/ /\ Normalized.features[1].geometry.gtype = "MultiLineString"
          /\ Normalized.features[1].geometry.coordinates.lines # <<>>

NormalizedLine ==
    IF Normalized.features[1].geometry.gtype = "LineString"
    THEN Normalized.features[1].geometry.coordinates.points
    ELSE Normalized.features[1].geometry.coordinates.lines[1]

\* C15: on an input that geojson_to_gpx converts and that ors_hiking_route turns
\* into a route with a line, the track points are the coordinates of that line,
\* also when the input carries both features and routes.
C15_SamePrecedence ==
    (fn = "geojson_to_gpx" /\ outcome = "returned" /\ NormalizedHasLine) =>
        /\ Len(gpx) = Len(NormalizedLine) + 2
        /\ \A i \in 1..Len(NormalizedLine) :
               /\ gpx[i + 1].lat = NormalizedLine[i][2]
               /\ gpx[i + 1].lon = NormalizedLine[i][1]

FeaturesGiven == data.hasFeatures /\ data.features # <<>>

\* no coordinate sequence can be resolved from the input
Unresolvable ==
    /\ data.isDict
    /\ \/ ~RoutesGiven /\ ~FeaturesGiven /\ data.type # "Feature"
       \/ /\ ~RoutesGiven
          /\ FeaturesGiven \/ data.type = "Feature"
          /\ \/ GpxGeometry.kind # "dict"
             \/ GpxGeometry.gtype \notin {"LineString", "MultiLineString"}
             \/ GpxGeometry.gtype = "MultiLineString" /\ GpxGeometry.coordinates.lines = <<>>
       \/ /\ RoutesGiven
          /\ GpxGeometry.kind # "str"
          /\ ~(GpxGeometry.kind = "dict" /\ GpxGeometry.coordinates.points # <<>>)

\* C16: when no coordinate sequence can be resolved geojson_to_gpx raises and
\* returns no document, not even a partial one; POST /gpx-from-geojson answers
\* 400 to every failed conversion and carries a GPX body only with 200.
C16_UnresolvableFails ==
    /\ (fn \in {"geojson_to_gpx", "gpx_from_geojson"} /\ Unresolvable) =>
           /\ outcome = "raised"
           /\ gpx = <<>>
    /\ fn = "gpx_from_geojson" =>
           /\ status \in {200, 400}
           /\ status = 400 <=> geojson_to_gpx(data).outcome = "raised"
           /\ gpx # <<>> <=> status = 200

\* a Feature whose MultiLineString has no sub-line
C16_Witness ==
    /\ fn = "gpx_from_geojson"
    /\ Unresolvable
    /\ data.type = "Feature"
    /\ GpxGeometry.gtype = "MultiLineString"
    /\ status = 400

\* the FeatureCollection returned was built by the routes path
Constructed ==
    /\ fn \in Normalizing
    /\ outcome = "returned"
    /\ ~IsFeatureCollection(data)
    /\ IsSingleLineString(route)

\* C17: a FeatureCollection built by the routes path of either entry point has
\* a LineString of at least 2 points, also for an empty string geometry, a
\* one-point polyline and a one-element coordinates list.
C17_AtLeastTwoPoints == Constructed => Len(Line(route)) >= 2

\* |x| <= 180 and |y| <= 90, the bounds included
WithinDegrees ==
    /\ -180 * args.x.d <= args.x.n /\ args.x.n <= 180 * args.x.d
    /\ -90 * args.y.d <= args.y.n /\ args.y.n <= 90 * args.y.d

Geocoded == fn = "geocode_os_names" /\ outcome = "returned"

\* C18: geocode_os_names reprojects (x, y) exactly when |x| > 180 or |y| > 90;
\* otherwise latitude is y and longitude is x, unchanged; the tuple returned is
\* (lat, lon, entry).
C18_MagnitudeHeuristic ==
    Geocoded =>
        /\ Len(geocoded.result) = 3
        /\ geocoded.result[3] = Term("entry", args.x, args.y)
        /\ IF WithinDegrees
           THEN /\ geocoded.result[1] = Term("y", args.x, args.y)
                /\ geocoded.result[2] = Term("x", args.x, args.y)
           ELSE /\ geocoded.result[1] = Term("lat", args.x, args.y)
                /\ geocoded.result[2] = Term("lon", args.x, args.y)

\* x = 180 and y = 90 exactly: no reprojection
C18_Witness ==
    /\ Geocoded
    /\ args.x = Num(180, 1)
    /\ args.y = Num(90, 1)
    /\ geocoded.result[1].op = "y"

LibraryCalls == {"generate_leaflet_map_html", "write_leaflet_map_html",
                 "generate_leaflet_map_html_from_waypoints"}

\* C19: with fewer than two points generate_leaflet_map_html raises ValueError
\* and gives no page; write_leaflet_map_html then raises before it opens the
\* output file, which stays as it was, missing or not; and
\* generate_leaflet_map_html_from_waypoints raises too.
C19_TwoPointsRequired ==
    (fn \in LibraryCalls /\ Len(args.points) < 2) =>
        /\ outcome = "raised"
        /\ ~page.rendered
        /\ fn # "generate_leaflet_map_html_from_waypoints" => error = "ValueError"
        /\ file = args.output_file

\* one point, and an output file that holds an older page
C19_Witness ==
    /\ fn = "write_leaflet_map_html"
    /\ Len(args.points) = 1
    /\ Len(args.points[1]) = 2
    /\ args.output_file.exists
    /\ outcome = "raised"
    /\ file = args.output_file

\* OS_API_KEY as os.getenv reads it at library.py:38
EnvironmentKey == IF args.environ.isNone THEN args.dotenv ELSE args.environ

\* the argument when it is not None, else the environment value
C20Key == IF args.os_api_key.isNone THEN EnvironmentKey ELSE args.os_api_key

PageGenerated == fn = "generate_leaflet_map_html" /\ outcome = "returned"

PathGiven ==
    /\ fn \in {"generate_leaflet_map_html", "write_leaflet_map_html"}
    /\ Len(args.points) >= 2
    /\ \A i \in 1..Len(args.points) : Len(args.points[i]) = 2

\* C22: for n >= 2 (lat, lon) points the page holds one line of n coordinates,
\* the i-th being [lon_i, lat_i], and a waypoints array of the same n points as
\* [lat_i, lon_i]; write_leaflet_map_html leaves in the output file exactly the
\* page generate_leaflet_map_html returns for the same arguments.
C22_PageFromPoints ==
    PathGiven =>
        /\ outcome = "returned"
        /\ page.rendered
        /\ Len(page.line) = Len(args.points)
        /\ Len(page.markers) = Len(args.points)
        /\ \A i \in 1..Len(args.points) :
               /\ page.line[i] = <<args.points[i][2], args.points[i][1]>>
               /\ page.markers[i] = <<args.points[i][1], args.points[i][2]>>
        /\ fn = "write_leaflet_map_html" =>
               /\ file.exists
               /\ file.content = <<generate_leaflet_map_html(args.points, args.os_api_key,
                                                            args.environ, args.dotenv).page>>
        /\ fn = "generate_leaflet_map_html" => file = args.output_file

\* three points written over an older page
C22_Witness ==
    /\ PathGiven
    /\ fn = "write_leaflet_map_html"
    /\ args.output_file.exists
    /\ Len(args.points) = 3
    /\ args.points[1] # args.points[2]
    /\ file # args.output_file
    /\ file.content[1].line[2] = <<args.points[2][2], args.points[2][1]>>

\* the same string decoded at the other of the two precisions
OtherPrecision == decode_polyline(encoded, 11 - precision)

\* the string geometry a call site consults, decoded at precision 6
Decoded6 == decode_polyline(data.routes[1].geometry.str, 6)

\* C23: whether _decode_polyline returns or raises, and how many points it
\* gives, is the same at precision 5 and 6; so at every call site the retry at
\* precision 6 raises whenever precision 5 raised, and every string geometry
\* that is decoded is scaled by 10^5.
C23_PrecisionIndependent ==
    /\ fn = "_decode_polyline" =>
           /\ OtherPrecision.ok <=> outcome = "returned"
           /\ Len(OtherPrecision.points) = Len(latlon)
    /\ ConsultsString =>
           /\ Decoded6.ok <=> Decoded.ok
           /\ Len(attempts) = 2 => attempts[1].raised /\ attempts[2].raised
           /\ (Decoded.ok /\ fn \in Normalizing) =>
                  /\ IsSingleLineString(route)
                  /\ \A i \in 1..Len(Line(route)) :
                         /\ Line(route)[i][1].d = 100000
                         /\ Line(route)[i][2].d = 100000
           /\ (Decoded.ok /\ fn = "geojson_to_gpx") =>
                  /\ outcome = "returned"
                  /\ \A i \in 2..(Len(gpx) - 1) :
                         /\ gpx[i].lat.d = 100000
                         /\ gpx[i].lon.d = 100000

\* a string that ends mid-sequence: both attempts are made and both raise
C23_Witness ==
    /\ fn = "ors_hiking_route_with_waypoints"
    /\ ConsultsString
    /\ ~Decoded.ok
    /\ ~Decoded6.ok
    /\ Len(attempts) = 2
    /\ attempts[1].raised /\ attempts[2].raised
    /\ outcome = "raised"

\* an in-range integer index selects an entry that is not a two-element pair
UnpackingFails ==
    \E k \in 1..Len(ValidIndices) : Len(Line(route)[ValidIndices[k].v + 1]) # 2

\* C24: when an in-range integer index selects an entry that cannot be unpacked
\* into lon and lat, the snapped list is empty, whatever was collected before,
\* and the FeatureCollection is still returned with the route's coordinates;
\* the snapped list is the full list of valid-index points or empty, never a
\* prefix.
C24_AllOrNothing ==
    SnapCase =>
        /\ IsSingleLineString(route)
        /\ Line(route) = RouteCoords(data.routes[1].geometry).coords
        /\ UnpackingFails => snapped = <<>>
        /\ snapped = <<>> \/ Len(snapped) = Len(ValidIndices)

\* indices [0, 1] on a route whose second entry has an elevation
C24_Witness ==
    /\ SnapCase
    /\ IndexList = <<Idx(0), Idx(1)>>
    /\ Len(Line(route)) = 2
    /\ Len(Line(route)[1]) = 2
    /\ Len(Line(route)[2]) = 3
    /\ snapped = <<>>

\* the export of the normalized response, and of the response itself
ExportOfNormalized == geojson_to_gpx(Normalized)

ExportOfResponse == geojson_to_gpx(data)

\* C25: for every provider response x, geojson_to_gpx of ors_hiking_route's
\* normalization of x and geojson_to_gpx of x both raise or both return the
\* same document; POST /gpx, which exports the normalized response, answers
\* with the document that the export of the response itself gives.
C25_NormalizeThenExport ==
    /\ fn = "geojson_to_gpx" =>
           /\ ExportOfNormalized.outcome = outcome
           /\ ExportOfNormalized.doc = gpx
    /\ (fn = "gpx_for_route" /\ upstream = AllOk) =>
           /\ status = 200 <=> ExportOfResponse.outcome = "returned"
           /\ gpx = ExportOfResponse.doc

\* a routes response with a string geometry of two points, exported by POST /gpx
C25_Witness ==
    /\ fn = "gpx_for_route"
    /\ upstream = AllOk
    /\ HasRoutes(data)
    /\ data.routes[1].geometry.kind = "str"
    /\ ~IsFeatureCollection(data)
    /\ Normalized # data
    /\ status = 200
    /\ Len(gpx) = 4
    /\ gpx = ExportOfResponse.doc

====
